---- MODULE Spec2Model ----
(***************************************************************************)
(* Model of the Stay Contented job server (src/server.js): the in-memory   *)
(* job table, the POST /api/jobs and GET /api/jobs/:id handlers, the       *)
(* runJob pipeline with its external calls, and the pure mode allocation   *)
(* applyMixedMode.                                                         *)
(*                                                                         *)
(* Node runs every handler and every continuation of an async function to  *)
(* its next await without interleaving, so one action is one such          *)
(* synchronous run: the POST handler up to res.json (which includes the    *)
(* prefix of runJob up to its first await), and each resumption of runJob  *)
(* when an external call settles.                                          *)
(***************************************************************************)
EXTENDS Integers, Sequences, FiniteSets, TLC

\* ---------------------------------------------------------------- bounds
MaxJobs == 2
MaxPosts == 5

\* ------------------------------------------------------- program constants
\* chosen.length < 4 and chosen.slice(0, 4)
ProductSlots == 4

VARIABLES
  jobs,      \* the Map `jobs`: job id -> job record
  task,      \* per job: where its runJob invocation is suspended, and its locals
  calls,     \* per job: the external calls issued so far, in order
  files,     \* per job: the files its pipeline has written under outputs/, in order
  hist,      \* per job: every value assigned to job.status, in order
  fault,     \* per job: the first failure that hit its pipeline, if any
  respSnap,  \* per job: what the job looked like when res.json({ jobId }) ran
  lastResp,  \* the last HTTP response the server sent
  mmPlan,    \* mode allocation on its own: the plan object
  mmFirst,   \* the plan after the first application
  mmStep     \* how many times applyMixedMode has been applied to mmPlan

vars == <<jobs, task, calls, files, hist, fault, respSnap, lastResp, mmPlan, mmFirst, mmStep>>
pipeVars == <<jobs, task, calls, files, hist, fault, respSnap, lastResp>>
mmVars == <<mmPlan, mmFirst, mmStep>>

\* ------------------------------------------------------------ small helpers
Min(a, b) == IF a < b THEN a ELSE b

Range(s) == {s[i] : i \in 1..Len(s)}

\* A field that is not set on the object (job.error, job.downloadUrl,
\* post.visual_mode).
Absent == "<absent>"

\* ------------------------------------------------------------------ posts
\* Post identifiers "P01", "P02", ... as the plan prompt asks for them.
PostIds == <<"P01", "P02", "P03", "P04", "P05", "P06", "P07", "P08">>

\* Texts are sequences of words; String.prototype.includes of a keyword is
\* the presence of that word.
Keywords == {"product", "offer", "pricing", "launch", "features"}

\* String.prototype.toLowerCase on the words used here.
toLowerCase(w) ==
  CASE w = "Launch" -> "launch"
    [] w = "Pricing" -> "pricing"
    [] OTHER -> w

\* t.includes(k) for some keyword k, t being lower-cased
includesKeyword(text) == \E i \in 1..Len(text) : toLowerCase(text[i]) \in Keywords

\* (p.topic + " " + (p.angle || "")).toLowerCase() contains a keyword
isProductish(p) == includesKeyword(p.topic \o p.angle)

isPromo(p) == p.post_type = "promotional"

isNotPromo(p) == p.post_type # "promotional"

\* A loop that takes the candidates from the end of the list.
RECURSIVE pushWhileRoomBackwards(_, _)
pushWhileRoomBackwards(chosen, list) ==
  IF list = <<>> THEN chosen
  ELSE pushWhileRoomBackwards(
         IF Len(chosen) < ProductSlots THEN Append(chosen, list[Len(list)]) ELSE chosen,
         SubSeq(list, 1, Len(list) - 1))

\* for (const p of list) if (chosen.length < 4) chosen.push(p);
RECURSIVE pushWhileRoom(_, _)
pushWhileRoom(chosen, list) ==
  IF list = <<>> THEN chosen
  ELSE pushWhileRoom(IF Len(chosen) < ProductSlots THEN Append(chosen, Head(list)) ELSE chosen,
                     Tail(list))

\* A variant that leaves out the posts already tagged product_model.
fillCandidatesSkipTagged(posts) ==
  SelectSeq(posts, LAMBDA p : isNotPromo(p) /\ p.visual_mode # "product_model")

\* remaining: the posts that are not promotional, from which the keyword
\* posts are taken and with which the third loop fills the choice.
fillCandidates(posts) == SelectSeq(posts, isNotPromo)

\* A choice that is not cut to its first 4 entries.
chosenIdsUncut(posts) ==
  LET promo == SelectSeq(posts, isPromo)
      remaining == fillCandidates(posts)
      productish == SelectSeq(remaining, isProductish)
      chosen == pushWhileRoom(pushWhileRoom(promo, productish), remaining)
  IN {chosen[i].id : i \in 1..Len(chosen)}

\* The identifiers chosen for product_model.
chosenIds(posts) ==
  LET promo == SelectSeq(posts, isPromo)
      remaining == fillCandidates(posts)
      productish == SelectSeq(remaining, isProductish)
      chosen == pushWhileRoom(pushWhileRoom(promo, productish), remaining)
  IN {chosen[i].id : i \in 1..Min(ProductSlots, Len(chosen))}

\* An allocation that tags only the posts the endpoint left untagged.
applyMixedModeKeepTags(planJson) ==
  LET posts == planJson.posts
      ids == chosenIds(posts)
  IN [planJson EXCEPT !.posts =
        [i \in 1..Len(posts) |->
           [posts[i] EXCEPT !.visual_mode =
              IF @ # Absent THEN @
              ELSE IF posts[i].id \in ids THEN "product_model" ELSE "editorial"]]]

\* applyMixedMode(planJson): planJson is [posts |-> <<...>>]; a document
\* without plan.posts has posts = <<>> and is returned as it is.
applyMixedMode(planJson) ==
  LET posts == planJson.posts
      ids == chosenIds(posts)
  IN IF Len(posts) = 0 THEN planJson
     ELSE [planJson EXCEPT !.posts =
             [i \in 1..Len(posts) |->
                [posts[i] EXCEPT !.visual_mode =
                   IF posts[i].id \in ids THEN "product_model" ELSE "editorial"]]]

\* ------------------------------------------------------------- job records
JobIds == 1..MaxJobs

\* req.body.input_json: text that is no JSON, "{}" (also the default when the
\* field is missing), or the document the form posts.
InputJsons == {"not json", "{}", "form"}

\* JSON.parse(req.body.input_json || "{}")
parseInput(input_json) ==
  CASE input_json = "{}" -> [ok |-> TRUE, value |-> [campaign |-> Absent]]
    [] input_json = "form" -> [ok |-> TRUE, value |-> [campaign |-> "2026-01"]]
    [] OTHER -> [ok |-> FALSE, value |-> [campaign |-> Absent]]

\* promptPlan(brandContext) reads brandContext.campaign.posts_count: a
\* TypeError when campaign is undefined.
promptPlanThrows(brandContext) == brandContext.campaign = Absent

\* Error messages.
ParseFailed == "JSON parse failed. First 200 chars"
NoImage == "No image returned from image API"
TypeErrorCampaign == "Cannot read properties of undefined (reading 'posts_count')"
TypeErrorVisuals == "Cannot read properties of null (reading 'editorial_visuals')"

\* Messages of the errors the OpenAI client rejects with: a text call with a
\* connection error, an image call also with an error that has no message.
TextRejections == {"Connection error."}

ImageRejections == {"Connection error.", ""}

\* The object POST /api/jobs stores.
newJob(jobId, input, now) ==
  [id |-> jobId, status |-> "queued", progress |-> 0, input |-> input,
   createdAt |-> now, error |-> Absent, downloadUrl |-> Absent]

\* A catch block that puts the job back in the queue.
catchErrorRequeue(job, message) ==
  [job EXCEPT !.status = "queued",
              !.error = IF message = "" THEN "Unknown error" ELSE message]

\* A catch block that also resets the progress.
catchErrorResetProgress(job, message) ==
  [job EXCEPT !.status = "error", !.progress = 0,
              !.error = IF message = "" THEN "Unknown error" ELSE message]

\* A catch block without the fallback for an error that has no message.
catchErrorNoFallback(job, message) ==
  [job EXCEPT !.status = "error", !.error = message]

\* catch (err) { job.status = "error"; job.error = err?.message || "Unknown error"; }
catchError(job, message) ==
  [job EXCEPT !.status = "error",
              !.error = IF message = "" THEN "Unknown error" ELSE message]

\* An end of the try block that stamps the finishing time over createdAt.
markDoneStamp(job) ==
  [job EXCEPT !.progress = 100, !.status = "done", !.downloadUrl = "content_plan.json",
              !.createdAt = 0]

\* An end of the try block that leaves the status as it is.
markDoneKeepStatus(job) ==
  [job EXCEPT !.progress = 100, !.downloadUrl = "content_plan.json"]

\* job.progress = 100; job.status = "done"; job.downloadUrl = ...
markDone(job) ==
  [job EXCEPT !.progress = 100, !.status = "done", !.downloadUrl = "content_plan.json"]

\* ------------------------------------------------------------ runJob locals
NoDoc == [posts |-> <<>>]

NoCaptions == [captions |-> <<>>]

\* An invocation that starts over at the plan call when it has finished.
IdleRestart == [pc |-> "plan", planJson |-> NoDoc, captionsJson |-> NoCaptions, queue |-> <<>>]

\* A runJob invocation that has returned.
Idle == [pc |-> "returned", planJson |-> NoDoc, captionsJson |-> NoCaptions, queue |-> <<>>]

\* An invocation that stays suspended at the failed call.
afterCatchRetry(t) == t

\* What is left of the invocation once catch and finally have run.
afterCatch(t) == Idle

\* ------------------------------------------------------------- documents
\* What the text endpoint answers: a rejected call, or message content that
\* JSON.parse accepts (json = TRUE, doc its value) or not.
Rejected(m) == [kind |-> "rejected", message |-> m, json |-> FALSE]

Garbage == [kind |-> "content", message |-> "", json |-> FALSE]

\* A callOpenAIJson that passes on content it cannot parse as an empty document.
callOpenAIJsonLenient(resp) == resp.kind = "rejected"

\* callOpenAIJson: the awaited call throws, or the content is parsed.
callOpenAIJsonThrows(resp) == resp.kind = "rejected" \/ ~resp.json

callOpenAIJsonMessage(resp) ==
  IF resp.kind = "rejected" THEN resp.message ELSE ParseFailed

post(i, type, topic, angle, mode) ==
  [id |-> PostIds[i], post_type |-> type, topic |-> topic, angle |-> angle, visual_mode |-> mode]

\* A five-post plan: one promotional post, one post about pricing, three others.
PlanFive ==
  [posts |-> << post(1, "promotional", <<"spring", "sale">>, <<>>, "product_model"),
                post(2, "educational", <<"Pricing", "guide">>, <<>>, "editorial"),
                post(3, "authority", <<"founder", "story">>, <<>>, "editorial"),
                post(4, "relatable", <<"daily", "routine">>, <<>>, "editorial"),
                post(5, "educational", <<"care", "tips">>, <<>>, "editorial") >>]

\* Plan documents the endpoint may return: {} (no plan) or the five posts.
PlanDocs == {NoDoc, PlanFive}

\* The names of the job directories under outputs/, by job.
JobDirs == <<"job-1", "job-2", "job-3", "job-4">>

\* Post identifiers that are relative paths: two levels up from a job's
\* Editorial_Posts directory and down into a job directory.
EscapeIds ==
  <<"../../job-1/P05", "../../job-2/P05", "../../job-3/P05", "../../job-4/P05">>

\* The five posts with the last one identified by a relative path into the
\* directory of job k.
PlanEscape(k) == [posts |-> [PlanFive.posts EXCEPT ![5].id = EscapeIds[k]]]

EscapePlans == {PlanEscape(k) : k \in JobIds}

planIds(planJson) == [i \in 1..Len(planJson.posts) |-> planJson.posts[i].id]

\* s without its last element
Front(s) == SubSeq(s, 1, Len(s) - 1)

\* Caption documents for a plan: one entry per post.
CaptionDocs(planJson) == {[captions |-> planIds(planJson)]}

\* Visual-brief documents for a plan: JSON null, one brief per post, or the
\* brief of the last post missing.
VisualDocs(planJson) ==
  LET ids == planIds(planJson)
  IN {[isNull |-> TRUE, editorial_visuals |-> <<>>],
      [isNull |-> FALSE, editorial_visuals |-> ids],
      [isNull |-> FALSE, editorial_visuals |-> IF ids = <<>> THEN ids ELSE Front(ids)]}

\* Visual-brief documents that list a post twice: one brief per post, and
\* the brief of the post before the last once more.
RepeatedVisuals(planJson) ==
  LET ids == planIds(planJson)
  IN IF Len(ids) < 2 THEN {}
     ELSE {[isNull |-> FALSE, editorial_visuals |-> Append(ids, ids[Len(ids) - 1])]}

\* What the image endpoint answers.
ImageResponses ==
  {[kind |-> "rejected", message |-> m, b64 |-> FALSE] : m \in ImageRejections}
  \cup {[kind |-> "result", message |-> "", b64 |-> b] : b \in BOOLEAN}

\* ---------------------------------------------------------------- outputs
\* path.join("outputs", jobId, ...segments)
outPath(jobId, segments) == [root |-> jobId, rel |-> segments]

JsonArtifacts ==
  << <<"content_plan.json">>, <<"captions.json">>, <<"editorial_visuals.json">>,
     <<"brand_style.json">>, <<"editorial_visuals_compiled.json">>,
     <<"product_model_briefs.json">> >>

\* One write: the path, the post identifiers the content lists, and for the
\* content plan its posts.
write(jobId, segments, ids, posts) ==
  [path |-> outPath(jobId, segments), ids |-> ids, posts |-> posts]

productIds(planJson) ==
  planIds([posts |-> SelectSeq(planJson.posts, LAMBDA p : p.visual_mode = "product_model")])

\* A step 4 that writes nothing before the images are requested.
saveOutputsLate(jobId, planJson, captionsJson, visualsJson) == <<>>

\* The six writeFileSafe calls of step 4.
saveOutputs(jobId, planJson, captionsJson, visualsJson) ==
  << write(jobId, JsonArtifacts[1], planIds(planJson), planJson.posts),
     write(jobId, JsonArtifacts[2], captionsJson.captions, <<>>),
     write(jobId, JsonArtifacts[3], visualsJson.editorial_visuals, <<>>),
     write(jobId, JsonArtifacts[4], <<>>, <<>>),
     write(jobId, JsonArtifacts[5], visualsJson.editorial_visuals, <<>>),
     write(jobId, JsonArtifacts[6], productIds(planJson), <<>>) >>

\* An image stage that renders every compiled brief.
editorialOnlyAll(planJson, visualsJson) == visualsJson.editorial_visuals

\* editorialOnly: the compiled briefs whose id is the id of an editorial post.
editorialOnly(planJson, visualsJson) ==
  LET editorialIds == {p.id : p \in {q \in Range(planJson.posts) : q.visual_mode = "editorial"}}
  IN SelectSeq(visualsJson.editorial_visuals, LAMBDA id : id \in editorialIds)

\* The segments of an identifier used as a path: split at "/".
splitPath(id) ==
  IF \E k \in 1..Len(EscapeIds) : id = EscapeIds[k]
  THEN LET k == CHOOSE k \in 1..Len(EscapeIds) : id = EscapeIds[k]
       IN <<"..", "..", JobDirs[k], "P05">>
  ELSE <<id>>

\* path.join normalises its result: a ".." segment removes the one before it.
RECURSIVE normalize(_, _)
normalize(done, segments) ==
  IF segments = <<>> THEN done
  ELSE IF Head(segments) = ".." /\ done # <<>>
  THEN normalize(Front(done), Tail(segments))
  ELSE normalize(Append(done, Head(segments)), Tail(segments))

\* path.join(outDir, "Editorial_Posts", `${v.id}.png`), as the job directory
\* the file lands in (0: none) and the path below it.
imagePath(jobId, id) ==
  LET p == normalize(<<>>, <<"outputs", JobDirs[jobId], "Editorial_Posts">> \o splitPath(id))
      dirs == {k \in 1..Len(JobDirs) : Len(p) >= 2 /\ p[1] = "outputs" /\ p[2] = JobDirs[k]}
  IN outPath(IF dirs = {} THEN 0 ELSE CHOOSE k \in dirs : TRUE,
             SubSeq(p, 3, Len(p)) \o <<".png">>)

\* --------------------------------------------------------------- responses
NoResponse == [route |-> "none", id |-> 0, code |-> 0, body |-> [error |-> Absent]]

NoFault == [kind |-> "none", message |-> "", calls |-> 0, writes |-> 0]

\* The failure a job meets: its kind and message, and how many calls the job
\* had issued and how many files it had written by then.
faultOf(j, kind, message) ==
  [kind |-> kind, message |-> message, calls |-> Len(calls[j]),
   writes |-> Len(files[j])]

\* An answer of the text endpoint that is a failure: the call was rejected,
\* or the content is no JSON.
endpointFailed(resp) == resp.kind = "rejected" \/ ~resp.json

textFault(resp) == IF resp.kind = "rejected" THEN "transport" ELSE "parse"

\* fault with the first failure of job j noted.
noted(j, kind, message) ==
  [fault EXCEPT ![j] = IF @.kind = "none" THEN faultOf(j, kind, message) ELSE @]

notedText(j, resp) ==
  IF endpointFailed(resp) THEN noted(j, textFault(resp), callOpenAIJsonMessage(resp)) ELSE fault

\* ------------------------------------------------------------------ runJob
\* A finally block that drops the failed job from the table.
FailDelete(j, job, message) ==
  /\ jobs' = [k \in DOMAIN jobs \ {j} |-> jobs[k]]
  /\ hist' = [hist EXCEPT ![j] = Append(@, catchError(job, message).status)]
  /\ task' = [task EXCEPT ![j] = afterCatch(@)]
  /\ UNCHANGED <<calls, files>>

\* A catch block that marks every running job of the table as failed.
FailAll(j, job, message) ==
  /\ jobs' = [k \in DOMAIN jobs |->
                IF k = j THEN catchError(job, message)
                ELSE IF jobs[k].status = "running" THEN catchError(jobs[k], message)
                ELSE jobs[k]]
  /\ hist' = [hist EXCEPT ![j] = Append(@, catchError(job, message).status)]
  /\ task' = [task EXCEPT ![j] = afterCatch(@)]
  /\ UNCHANGED <<calls, files>>

\* The catch and finally blocks: the job, as the try block left it, becomes
\* an error job and the invocation returns.
Fail(j, job, message) ==
  /\ jobs' = [jobs EXCEPT ![j] = catchError(job, message)]
  /\ hist' = [hist EXCEPT ![j] = Append(@, catchError(job, message).status)]
  /\ task' = [task EXCEPT ![j] = afterCatch(@)]
  /\ UNCHANGED <<calls, files>>

\* The end of the try block.
Done(j, job, written) ==
  /\ jobs' = [jobs EXCEPT ![j] = markDone(job)]
  /\ hist' = [hist EXCEPT ![j] = Append(@, markDone(job).status)]
  /\ task' = [task EXCEPT ![j] = Idle]
  /\ files' = [files EXCEPT ![j] = written]
  /\ UNCHANGED calls

\* A handler that calls runJob(jobId) before jobs.set(jobId, {...}).
tableLate(table, jobId, job) == table

\* jobs.set(jobId, {...}) of the POST handler, which runs before runJob(jobId).
tableAtRun(table, jobId, job) ==
  [k \in DOMAIN table \cup {jobId} |-> IF k = jobId THEN job ELSE table[k]]

\* POST /api/jobs: the handler, with the part of runJob that runs before its
\* first await, up to res.json({ jobId }).
PostJobs(input_json) ==
  LET jobId == Cardinality(DOMAIN jobs) + 1
      parsed == parseInput(input_json)
      created == newJob(jobId, parsed.value, jobId)
      table == tableAtRun(jobs, jobId, created)
      found == jobId \in DOMAIN table
      running == [created EXCEPT !.status = "running", !.progress = 10]
      throws == promptPlanThrows(created.input)
      job == IF ~found THEN created
             ELSE IF throws THEN catchError(running, TypeErrorCampaign)
             ELSE running
      issued == IF found /\ ~throws THEN <<"plan">> ELSE <<>>
  IN IF ~parsed.ok
     THEN /\ lastResp' = [route |-> "POST", id |-> 0, code |-> 500,
                          body |-> [error |-> "SyntaxError"]]
          /\ UNCHANGED <<jobs, task, calls, files, hist, fault, respSnap>>
     ELSE /\ jobId \in JobIds
          /\ jobs' = [k \in DOMAIN jobs \cup {jobId} |-> IF k = jobId THEN job ELSE jobs[k]]
          /\ hist' = [k \in DOMAIN jobs \cup {jobId} |->
                        IF k # jobId THEN hist[k]
                        ELSE IF ~found THEN <<created.status>>
                        ELSE IF throws THEN <<created.status, running.status, job.status>>
                        ELSE <<created.status, running.status>>]
          /\ task' = [k \in DOMAIN jobs \cup {jobId} |->
                        IF k # jobId THEN task[k]
                        ELSE IF found /\ ~throws THEN [Idle EXCEPT !.pc = "plan"]
                        ELSE Idle]
          /\ calls' = [k \in DOMAIN jobs \cup {jobId} |-> IF k = jobId THEN issued ELSE calls[k]]
          /\ fault' = [k \in DOMAIN jobs \cup {jobId} |->
                        IF k # jobId THEN fault[k]
                        ELSE IF found /\ throws
                             THEN [NoFault EXCEPT !.kind = "type", !.message = TypeErrorCampaign]
                             ELSE NoFault]
          /\ respSnap' = [k \in DOMAIN jobs \cup {jobId} |->
                            IF k # jobId THEN respSnap[k]
                            ELSE [status |-> job.status, progress |-> job.progress,
                                  calls |-> Len(issued)]]
          /\ lastResp' = [route |-> "POST", id |-> jobId, code |-> 200,
                          body |-> [jobId |-> jobId]]
          /\ files' = [k \in DOMAIN jobs \cup {jobId} |-> IF k = jobId THEN <<>> ELSE files[k]]

\* runJob resumes with the answer to the plan call: applyMixedMode,
\* progress 35, and the captions call is issued.
PlanReturn(j, resp, doc) ==
  /\ j \in DOMAIN jobs
  /\ task[j].pc = "plan"
  /\ IF callOpenAIJsonThrows(resp)
     THEN Fail(j, jobs[j], callOpenAIJsonMessage(resp))
     ELSE /\ jobs' = [jobs EXCEPT ![j].progress = 35]
          /\ task' = [task EXCEPT ![j].pc = "captions", ![j].planJson = applyMixedMode(doc)]
          /\ calls' = [calls EXCEPT ![j] = Append(@, "captions")]
          /\ UNCHANGED <<files, hist>>
  /\ fault' = notedText(j, resp)
  /\ UNCHANGED <<respSnap, lastResp>>

\* runJob resumes with the answer to the captions call: progress 55, and the
\* visual-briefs call is issued.
CaptionsReturn(j, resp, doc) ==
  /\ j \in DOMAIN jobs
  /\ task[j].pc = "captions"
  /\ IF callOpenAIJsonThrows(resp)
     THEN Fail(j, jobs[j], callOpenAIJsonMessage(resp))
     ELSE /\ jobs' = [jobs EXCEPT ![j].progress = 55]
          /\ task' = [task EXCEPT ![j].pc = "visuals", ![j].captionsJson = doc]
          /\ calls' = [calls EXCEPT ![j] = Append(@, "visuals")]
          /\ UNCHANGED <<files, hist>>
  /\ fault' = notedText(j, resp)
  /\ UNCHANGED <<respSnap, lastResp>>

\* runJob resumes with the answer to the visual-briefs call: progress 65, the
\* prompts are compiled, the six documents are written, progress 75, and the
\* first image is requested (or, with no editorial brief, the job is done).
VisualsReturn(j, resp, doc) ==
  LET at65 == [jobs[j] EXCEPT !.progress = 65]
      at75 == [jobs[j] EXCEPT !.progress = 75]
      planJson == task[j].planJson
      written == files[j] \o saveOutputs(j, planJson, task[j].captionsJson, doc)
      queue == editorialOnly(planJson, doc)
  IN /\ j \in DOMAIN jobs
     /\ task[j].pc = "visuals"
     /\ IF callOpenAIJsonThrows(resp)
        THEN Fail(j, jobs[j], callOpenAIJsonMessage(resp))
        ELSE IF doc.isNull
        THEN Fail(j, at65, TypeErrorVisuals)
        ELSE IF queue = <<>>
        THEN Done(j, at75, written)
        ELSE /\ jobs' = [jobs EXCEPT ![j] = at75]
             /\ task' = [task EXCEPT ![j].pc = "image", ![j].queue = queue]
             /\ calls' = [calls EXCEPT ![j] = Append(@, "image")]
             /\ files' = [files EXCEPT ![j] = written]
             /\ UNCHANGED hist
     /\ fault' = IF endpointFailed(resp) THEN notedText(j, resp)
                 ELSE IF doc.isNull THEN noted(j, "type", TypeErrorVisuals)
                 ELSE fault
     /\ UNCHANGED <<respSnap, lastResp>>

\* generateEditorialImage resumes with the answer to the image call: the
\* image is written and the next one requested, or the job is done.
ImageReturn(j, resp) ==
  LET id == Head(task[j].queue)
      rest == Tail(task[j].queue)
      written == Append(files[j], [path |-> imagePath(j, id), ids |-> <<id>>, posts |-> <<>>])
  IN /\ j \in DOMAIN jobs
     /\ task[j].pc = "image"
     /\ IF resp.kind = "rejected"
        THEN Fail(j, jobs[j], resp.message)
        ELSE IF ~resp.b64
        THEN Fail(j, jobs[j], NoImage)
        ELSE IF rest = <<>>
        THEN Done(j, jobs[j], written)
        ELSE /\ task' = [task EXCEPT ![j].queue = rest]
             /\ calls' = [calls EXCEPT ![j] = Append(@, "image")]
             /\ files' = [files EXCEPT ![j] = written]
             /\ UNCHANGED <<jobs, hist>>
     /\ fault' = IF resp.kind = "rejected" THEN noted(j, "transport", resp.message)
                 ELSE IF ~resp.b64 THEN noted(j, "noimage", NoImage)
                 ELSE fault
     /\ UNCHANGED <<respSnap, lastResp>>

\* A variant of the status route that answers an unknown id with a fresh job.
GetStatusDefault(id) ==
  /\ jobs' = IF id \in DOMAIN jobs THEN jobs
             ELSE [k \in DOMAIN jobs \cup {id} |->
                     IF k = id THEN newJob(id, [campaign |-> Absent], 0) ELSE jobs[k]]
  /\ lastResp' = [route |-> "GET", id |-> id, code |-> 200, body |-> jobs'[id]]
  /\ UNCHANGED <<task, calls, files, hist, fault, respSnap>>

\* GET /api/jobs/:id
GetStatus(id) ==
  /\ lastResp' = IF id \in DOMAIN jobs
                 THEN [route |-> "GET", id |-> id, code |-> 200, body |-> jobs[id]]
                 ELSE [route |-> "GET", id |-> id, code |-> 404,
                       body |-> [error |-> "Not found"]]
  /\ UNCHANGED <<jobs, task, calls, files, hist, fault, respSnap>>

\* ------------------------------------------------------------ the server
Init ==
  /\ jobs = <<>>
  /\ task = <<>>
  /\ calls = <<>>
  /\ files = <<>>
  /\ hist = <<>>
  /\ fault = <<>>
  /\ respSnap = <<>>
  /\ lastResp = NoResponse
  /\ mmPlan = NoDoc
  /\ mmFirst = NoDoc
  /\ mmStep = 0

\* Answers of the text endpoint that carry no document.
TextFailures == {Rejected(m) : m \in TextRejections} \cup {Garbage}

Parsed == [kind |-> "content", message |-> "", json |-> TRUE]

EmptyVisuals == [isNull |-> FALSE, editorial_visuals |-> <<>>]

\* Identifiers of status requests: those of jobs, and 0, which no job has.
GetIds == JobIds \cup {0}

Next ==
  \/ \E input_json \in InputJsons : PostJobs(input_json) /\ UNCHANGED mmVars
  \/ \E j \in JobIds :
       /\ UNCHANGED mmVars
       /\ \/ \E resp \in TextFailures : PlanReturn(j, resp, NoDoc)
          \/ \E doc \in PlanDocs : PlanReturn(j, Parsed, doc)
  \/ \E j \in JobIds :
       /\ UNCHANGED mmVars
       /\ j \in DOMAIN task
       /\ \/ \E resp \in TextFailures : CaptionsReturn(j, resp, NoCaptions)
          \/ \E doc \in CaptionDocs(task[j].planJson) : CaptionsReturn(j, Parsed, doc)
  \/ \E j \in JobIds :
       /\ UNCHANGED mmVars
       /\ j \in DOMAIN task
       /\ \/ \E resp \in TextFailures : VisualsReturn(j, resp, EmptyVisuals)
          \/ \E doc \in VisualDocs(task[j].planJson) : VisualsReturn(j, Parsed, doc)
  \/ \E j \in JobIds, resp \in ImageResponses : ImageReturn(j, resp) /\ UNCHANGED mmVars
  \/ \E id \in GetIds : GetStatus(id) /\ UNCHANGED mmVars

Spec == Init /\ [][Next]_vars

\* ------------------------------------------------- a call that never returns
\* The continuations of job j: one of its awaited calls returns and runJob
\* resumes.
Returns(j) ==
  /\ UNCHANGED mmVars
  /\ j \in DOMAIN task
  /\ \/ \E resp \in TextFailures : PlanReturn(j, resp, NoDoc)
     \/ \E doc \in PlanDocs : PlanReturn(j, Parsed, doc)
     \/ \E resp \in TextFailures : CaptionsReturn(j, resp, NoCaptions)
     \/ \E doc \in CaptionDocs(task[j].planJson) : CaptionsReturn(j, Parsed, doc)
     \/ \E resp \in TextFailures : VisualsReturn(j, resp, EmptyVisuals)
     \/ \E doc \in VisualDocs(task[j].planJson) : VisualsReturn(j, Parsed, doc)
     \/ \E resp \in ImageResponses : ImageReturn(j, resp)

\* The job whose calls need not return: the first one submitted.
StalledJob == CHOOSE j \in JobIds : \A k \in JobIds : j <= k

\* Submissions and continuations, without the status route.
NextStall ==
  \/ \E input_json \in InputJsons : PostJobs(input_json) /\ UNCHANGED mmVars
  \/ \E j \in JobIds : Returns(j)

\* The server where the calls of every job but StalledJob return, and the
\* event loop then resumes the job: a pending call of StalledJob may stay
\* unanswered for ever.
SpecStall ==
  Init /\ [][NextStall]_vars /\ \A j \in JobIds \ {StalledJob} : WF_vars(Returns(j))

\* The server where the calls of every job return, and the event loop then
\* resumes the job.
SpecFair ==
  Init /\ [][NextStall]_vars /\ \A j \in JobIds : WF_vars(Returns(j))

\* ------------------------------------- plans with path-like identifiers
\* The server with an endpoint whose plans identify a post by a relative
\* path.
NextDocs ==
  \/ \E input_json \in InputJsons : PostJobs(input_json) /\ UNCHANGED mmVars
  \/ \E j \in JobIds :
       /\ UNCHANGED mmVars
       /\ \/ \E resp \in TextFailures : PlanReturn(j, resp, NoDoc)
          \/ \E doc \in EscapePlans : PlanReturn(j, Parsed, doc)
  \/ \E j \in JobIds :
       /\ UNCHANGED mmVars
       /\ j \in DOMAIN task
       /\ \/ \E resp \in TextFailures : CaptionsReturn(j, resp, NoCaptions)
          \/ \E doc \in CaptionDocs(task[j].planJson) : CaptionsReturn(j, Parsed, doc)
  \/ \E j \in JobIds :
       /\ UNCHANGED mmVars
       /\ j \in DOMAIN task
       /\ \/ \E resp \in TextFailures : VisualsReturn(j, resp, EmptyVisuals)
          \/ \E doc \in VisualDocs(task[j].planJson) \cup RepeatedVisuals(task[j].planJson) :
               VisualsReturn(j, Parsed, doc)
  \/ \E j \in JobIds, resp \in ImageResponses : ImageReturn(j, resp) /\ UNCHANGED mmVars
  \/ \E id \in GetIds : GetStatus(id) /\ UNCHANGED mmVars

SpecDocs == Init /\ [][NextDocs]_vars

\* ------------------------------------------- mode allocation on its own
\* Plans of up to MaxPosts posts: every post promotional or not, about a
\* product keyword or not; the plan untagged, tagged product_model
\* throughout or tagged alternately; its identifiers unique, or the last
\* post carrying the identifier of the first.
PostTypes == {"promotional", "educational"}

Topics == {<<"Launch", "week">>, <<"daily", "routine">>}

Taggings == {"untagged", "product", "alternate"}

taggedAs(tagging, i) ==
  CASE tagging = "untagged" -> Absent
    [] tagging = "product" -> "product_model"
    [] OTHER -> IF i % 2 = 1 THEN "product_model" ELSE "editorial"

modePlan(n, types, topics, tagging, dup) ==
  [posts |-> [i \in 1..n |->
     [id |-> IF dup /\ i = n THEN PostIds[1] ELSE PostIds[i],
      post_type |-> types[i], topic |-> topics[i], angle |-> <<>>,
      visual_mode |-> taggedAs(tagging, i)]]]

InitMode ==
  /\ jobs = <<>>
  /\ task = <<>>
  /\ calls = <<>>
  /\ files = <<>>
  /\ hist = <<>>
  /\ fault = <<>>
  /\ respSnap = <<>>
  /\ lastResp = NoResponse
  /\ \E n \in 0..MaxPosts :
       \E types \in [1..n -> PostTypes], topics \in [1..n -> Topics],
          tagging \in Taggings, dup \in BOOLEAN :
         mmPlan = modePlan(n, types, topics, tagging, dup)
  /\ mmFirst = mmPlan
  /\ mmStep = 0

\* planJson = applyMixedMode(planJson)
ApplyOnce ==
  /\ mmStep = 0
  /\ mmPlan' = applyMixedMode(mmPlan)
  /\ mmFirst' = mmPlan'
  /\ mmStep' = 1
  /\ UNCHANGED pipeVars

\* applyMixedMode applied to its own output
ApplyAgain ==
  /\ mmStep = 1
  /\ mmPlan' = applyMixedMode(mmPlan)
  /\ mmStep' = 2
  /\ UNCHANGED <<mmFirst, pipeVars>>

NextMode == ApplyOnce \/ ApplyAgain

SpecMode == InitMode /\ [][NextMode]_vars

\* ------------------------------------------------------------ properties
Terminal == {"done", "error"}

\* C1: the status values a job takes are a prefix of queued, running, then
\* one of done or error, and the job's status is the last value assigned: a
\* job starts queued, only running follows queued, and nothing follows done
\* or error.
C1_StatusSequence ==
  \A j \in DOMAIN jobs :
    LET h == hist[j]
    IN /\ Len(h) \in 1..3
       /\ h[1] = "queued"
       /\ Len(h) >= 2 => h[2] = "running"
       /\ Len(h) = 3 => h[3] \in Terminal
       /\ jobs[j].status = h[Len(h)]

C1_Witness ==
  \E j, k \in DOMAIN jobs :
    /\ hist[j] = <<"queued", "running", "done">>
    /\ hist[k] = <<"queued", "running", "error">>
    /\ lastResp.route = "GET"

IsSnapshot(r) == r.route = "GET" /\ r.code = 200

\* C2: in two successive status snapshots of one job the progress does not
\* decrease, and a snapshot with progress 100 has status done (so a snapshot
\* of an error job has a progress below 100).
C2_ProgressMonotone ==
  /\ [][(IsSnapshot(lastResp) /\ IsSnapshot(lastResp') /\ lastResp'.id = lastResp.id)
          => lastResp'.body.progress >= lastResp.body.progress]_vars
  /\ [](IsSnapshot(lastResp) =>
          /\ lastResp.body.progress = 100 => lastResp.body.status = "done"
          /\ lastResp.body.status = "error" => lastResp.body.progress < 100)

C2_Witness ==
  /\ IsSnapshot(lastResp)
  /\ lastResp.body.status = "error"
  /\ lastResp.body.progress = 75

isProduct(p) == p.visual_mode = "product_model"

isEditorial(p) == p.visual_mode = "editorial"

UniqueIds(posts) == \A a, b \in 1..Len(posts) : posts[a].id = posts[b].id => a = b

\* C3: after mode allocation a plan of at least 4 posts with unique
\* identifiers has exactly 4 posts tagged product_model and every other post
\* tagged editorial.
C3_ExactlyFourProduct ==
  (mmStep >= 1 /\ Len(mmPlan.posts) >= ProductSlots /\ UniqueIds(mmPlan.posts)) =>
    /\ Len(SelectSeq(mmPlan.posts, isProduct)) = ProductSlots
    /\ Len(SelectSeq(mmPlan.posts, isEditorial)) = Len(mmPlan.posts) - ProductSlots

\* C4: applying mode allocation to its own output gives every post the
\* visual_mode the first application gave it.
C4_Idempotent ==
  mmStep = 2 =>
    /\ Len(mmPlan.posts) = Len(mmFirst.posts)
    /\ \A i \in 1..Len(mmPlan.posts) :
         mmPlan.posts[i].visual_mode = mmFirst.posts[i].visual_mode

C4_Witness ==
  /\ mmStep = 2
  /\ Len(mmPlan.posts) > ProductSlots
  /\ \E i, k \in 1..Len(mmPlan.posts) :
       isProduct(mmPlan.posts[i]) /\ isEditorial(mmPlan.posts[k])

\* C5: a job one of whose text calls returned content that is no JSON is an
\* error job with the parse-failure message, and has written no file.
C5_ParseFailureAborts ==
  \A j \in DOMAIN jobs :
    fault[j].kind = "parse" =>
      /\ jobs[j].status = "error"
      /\ jobs[j].error = ParseFailed
      /\ files[j] = <<>>

C5_Witness ==
  \E j, k \in DOMAIN jobs :
    /\ fault[j].kind = "parse" /\ calls[j] = <<"plan">>
    /\ fault[k].kind = "parse" /\ calls[k] = <<"plan", "captions", "visuals">>

\* C6: a job that met a failure is an error job carrying the failure's
\* message (Unknown error for a failure without one); since the failure it
\* has issued no call and written no file, and its pipeline has returned.
C6_FailureAborts ==
  \A j \in DOMAIN jobs :
    fault[j].kind # "none" =>
      /\ jobs[j].status = "error"
      /\ jobs[j].error = IF fault[j].message = "" THEN "Unknown error" ELSE fault[j].message
      /\ Len(calls[j]) = fault[j].calls
      /\ Len(files[j]) = fault[j].writes
      /\ task[j].pc = "returned"

C6_Witness ==
  \E j \in DOMAIN jobs :
    /\ fault[j].kind = "noimage"
    /\ fault[j].writes = Len(JsonArtifacts) + 1
    /\ jobs[j].status = "error"

\* C7: a status request for an identifier that is not in the job table is
\* answered 404 with the not-found body, and leaves the job table as it was.
C7_UnknownIdNotFound ==
  [][\A id \in GetIds :
       (id \notin DOMAIN jobs /\ GetStatus(id)) =>
         /\ lastResp'.code = 404
         /\ lastResp'.body = [error |-> "Not found"]
         /\ jobs' = jobs]_vars

C7_Witness ==
  /\ lastResp.route = "GET"
  /\ lastResp.code = 404
  /\ lastResp.id \notin DOMAIN jobs
  /\ jobs # <<>>

Count(s, x) == Cardinality({i \in 1..Len(s) : s[i] = x})

\* The identifiers listed by the artifact job j wrote under the given name.
artifactIds(j, name) ==
  LET w == SelectSeq(files[j], LAMBDA f : f.path = outPath(j, name))
  IN IF w = <<>> THEN <<>> ELSE w[Len(w)].ids

\* C8: for a job that is done, every post identifier of its content plan is
\* listed exactly once in its captions artifact and exactly once in its
\* visual-briefs artifact.
C8_EveryPostOnce ==
  \A j \in DOMAIN jobs :
    jobs[j].status = "done" =>
      \A id \in Range(artifactIds(j, JsonArtifacts[1])) :
        /\ Count(artifactIds(j, JsonArtifacts[2]), id) = 1
        /\ Count(artifactIds(j, JsonArtifacts[3]), id) = 1

wrote(j, name) == \E i \in 1..Len(files[j]) : files[j][i].path = outPath(j, name)

issued(j, call) == call \in Range(calls[j])

\* C9 as stated: the captions call is issued only once the content plan is
\* on disk, and the visual-briefs call only once the captions are on disk.
C9_StageAfterPersist ==
  \A j \in DOMAIN jobs :
    /\ issued(j, "captions") => wrote(j, JsonArtifacts[1])
    /\ issued(j, "visuals") => wrote(j, JsonArtifacts[2])

\* C9 amended: the captions call is issued only after the plan call has
\* returned (progress 35 or more), the visual-briefs call only after the
\* captions call has returned (progress 55 or more); files are written only
\* after the three text calls were issued in this order, and an image is
\* requested only once the six JSON artifacts are on disk.
C9_StageAfterResult ==
  \A j \in DOMAIN jobs :
    /\ issued(j, "captions") => jobs[j].progress >= 35
    /\ issued(j, "visuals") => jobs[j].progress >= 55
    /\ files[j] # <<>> =>
         Len(calls[j]) >= 3 /\ SubSeq(calls[j], 1, 3) = <<"plan", "captions", "visuals">>
    /\ issued(j, "image") =>
         \A n \in 1..Len(JsonArtifacts) : wrote(j, JsonArtifacts[n])

C9_Witness ==
  \E j \in DOMAIN jobs :
    /\ issued(j, "image")
    /\ task[j].pc = "image"
    /\ Len(files[j]) = Len(JsonArtifacts)

\* C10 as stated: when the response with the jobId is sent the job is queued
\* with progress 0 and no generation call has been issued for it.
C10_RespondedQueued ==
  \A j \in DOMAIN respSnap :
    /\ respSnap[j].status = "queued"
    /\ respSnap[j].progress = 0
    /\ respSnap[j].calls = 0

\* C10 amended: when the response with the jobId is sent, runJob has run up
\* to its first await: the job is running with progress 10 and its plan call
\* is the one call issued, or, the plan prompt having thrown, it is an error
\* job with progress 10 and no call issued.
C10_RespondedStarted ==
  \A j \in DOMAIN respSnap :
    \/ /\ respSnap[j].status = "running"
       /\ respSnap[j].progress = 10
       /\ respSnap[j].calls = 1
    \/ /\ respSnap[j].status = "error"
       /\ respSnap[j].progress = 10
       /\ respSnap[j].calls = 0

C10_Witness ==
  \E j, k \in DOMAIN respSnap :
    /\ respSnap[j].status = "running"
    /\ respSnap[k].status = "error"
    /\ lastResp.route = "POST" /\ lastResp.code = 200

\* C11: no job record holds a campaign context without the campaign fields,
\* and a submission of such a context is not answered with a jobId.
C11_MalformedRejected ==
  /\ \A j \in DOMAIN jobs : ~promptPlanThrows(jobs[j].input)
  /\ (lastResp.route = "POST" /\ lastResp.code = 200) =>
       ~promptPlanThrows(jobs[lastResp.id].input)

\* C12: every file a job has written lies in that job's own directory.
C12_WritesInOwnNamespace ==
  \A j \in DOMAIN jobs :
    \A i \in 1..Len(files[j]) : files[j][i].path.root = j

\* C13: a step in which a job's pipeline does not move (its call has not
\* returned) changes nothing of that job's record, calls or files, whatever
\* the other jobs do; and every job other than the stalled one, once
\* submitted, reaches done or error.
C13_StallIsLocal ==
  /\ [][\A j \in DOMAIN jobs :
          task'[j] = task[j] =>
            jobs'[j] = jobs[j] /\ calls'[j] = calls[j] /\ files'[j] = files[j]]_vars
  /\ \A j \in JobIds \ {StalledJob} :
       (j \in DOMAIN jobs) ~> (j \in DOMAIN jobs /\ jobs[j].status \in Terminal)

\* The stalled job still waits for its first call while another job, submitted
\* after it, is done.
C13_Witness ==
  /\ StalledJob \in DOMAIN jobs
  /\ task[StalledJob].pc = "plan"
  /\ jobs[StalledJob].status = "running"
  /\ \E j \in DOMAIN jobs : j # StalledJob /\ jobs[j].status = "done"

\* A write of a rendered image (the file name ends in .png).
isImage(f) == f.path.rel[Len(f.path.rel)] = ".png"

\* The identifiers of the images job j has written, in order.
imageIds(j) ==
  LET w == SelectSeq(files[j], isImage) IN [i \in 1..Len(w) |-> w[i].ids[1]]

editorialIdsOf(posts) == {p.id : p \in {q \in Range(posts) : isEditorial(q)}}

productIdsOf(posts) == {p.id : p \in {q \in Range(posts) : isProduct(q)}}

\* The posts of the content plan job j has written.
planPosts(j) == files[j][1].posts

\* C14: every image a job has written, and every image it is still to
\* request, carries the identifier of a post its plan tags editorial, and of
\* no post its plan tags product_model.
C14_ImagesOnlyEditorial ==
  \A j \in DOMAIN jobs :
    /\ \A id \in Range(imageIds(j)) :
         id \in editorialIdsOf(planPosts(j)) /\ id \notin productIdsOf(planPosts(j))
    /\ \A id \in Range(task[j].queue) :
         /\ id \in editorialIdsOf(task[j].planJson.posts)
         /\ id \notin productIdsOf(task[j].planJson.posts)

C14_Witness ==
  \E j \in DOMAIN jobs :
    /\ jobs[j].status = "done"
    /\ imageIds(j) # <<>>
    /\ \E id \in Range(artifactIds(j, JsonArtifacts[3])) : id \in productIdsOf(planPosts(j))

\* C15: a job that is done has written exactly one image for every post its
\* plan tags editorial.
C15_OneImagePerEditorial ==
  \A j \in DOMAIN jobs :
    jobs[j].status = "done" =>
      \A id \in editorialIdsOf(planPosts(j)) : Count(imageIds(j), id) = 1

\* The error field is set exactly on an error object, and is then not empty.
errorWellFormed(job) ==
  /\ job.error # Absent <=> job.status = "error"
  /\ job.status = "error" => job.error # ""

\* C16: in every job record, and in every status snapshot, the error field is
\* present exactly when the status is error, and then holds a non-empty
\* message.
C16_ErrorIffErrorStatus ==
  /\ \A j \in DOMAIN jobs : errorWellFormed(jobs[j])
  /\ IsSnapshot(lastResp) => errorWellFormed(lastResp.body)

C16_Witness ==
  \E j, k \in DOMAIN jobs :
    /\ jobs[j].status = "error" /\ jobs[j].error = "Unknown error"
    /\ jobs[k].status = "running" /\ jobs[k].error = Absent

\* C17: no step changes the id, the createdAt or the input of a job that is
\* in the table.
C17_CreationFieldsFrozen ==
  [][\A j \in DOMAIN jobs :
       /\ j \in DOMAIN jobs'
       /\ jobs'[j].id = jobs[j].id
       /\ jobs'[j].createdAt = jobs[j].createdAt
       /\ jobs'[j].input = jobs[j].input]_vars

C17_Witness ==
  \E j \in DOMAIN jobs :
    /\ jobs[j].status = "done"
    /\ imageIds(j) # <<>>
    /\ jobs[j].id = j /\ jobs[j].createdAt = j /\ ~promptPlanThrows(jobs[j].input)

\* C18: every jobId a submission has returned is in the job table, no step
\* removes an entry, and a status request for a returned jobId is answered
\* 200 with that job's record.
C18_ReturnedIdFound ==
  /\ [](\A j \in DOMAIN respSnap : j \in DOMAIN jobs)
  /\ [][/\ \A j \in DOMAIN jobs : j \in DOMAIN jobs'
        /\ \A id \in GetIds :
             (id \in DOMAIN respSnap /\ GetStatus(id)) =>
               lastResp'.code = 200 /\ lastResp'.body = jobs[id]]_vars

C18_Witness ==
  /\ IsSnapshot(lastResp)
  /\ lastResp.body.status = "error"
  /\ Cardinality(DOMAIN jobs) = MaxJobs
  /\ \A j \in DOMAIN jobs : jobs[j].status \in Terminal

\* The priority class of a post: 1 promotional, 2 not promotional with a
\* product keyword in its text, 3 any other.
priorityClass(p) == IF isPromo(p) THEN 1 ELSE IF isProductish(p) THEN 2 ELSE 3

\* C19: in an allocated plan with unique identifiers, no post is tagged
\* product_model while a post of a higher priority class, or an earlier post
\* of its own class, is tagged editorial.
C19_PriorityRespected ==
  (mmStep >= 1 /\ UniqueIds(mmPlan.posts)) =>
    \A i, k \in 1..Len(mmPlan.posts) :
      (isEditorial(mmPlan.posts[i]) /\ isProduct(mmPlan.posts[k])) =>
        /\ priorityClass(mmPlan.posts[i]) >= priorityClass(mmPlan.posts[k])
        /\ priorityClass(mmPlan.posts[i]) = priorityClass(mmPlan.posts[k]) => k < i

\* Two keyword posts compete for the slots two promotional posts leave: the
\* earlier keyword posts are product_model, a later one is editorial.
C19_Witness ==
  /\ mmStep >= 1
  /\ UniqueIds(mmPlan.posts)
  /\ \E i, k \in 1..Len(mmPlan.posts) :
       /\ i < k
       /\ priorityClass(mmPlan.posts[i]) = 2 /\ isProduct(mmPlan.posts[i])
       /\ priorityClass(mmPlan.posts[k]) = 2 /\ isEditorial(mmPlan.posts[k])
  /\ \E i \in 1..Len(mmPlan.posts) : priorityClass(mmPlan.posts[i]) = 1

\* The plan as the endpoint would return it with no visual_mode at all.
untagged(planJson) ==
  [posts |-> [i \in 1..Len(planJson.posts) |->
                [planJson.posts[i] EXCEPT !.visual_mode = Absent]]]

\* C20: the allocation of a plan of 1 to 3 posts leaves every post with
\* visual_mode editorial or product_model, none untagged, and the tag is the
\* one the allocation gives the post when the endpoint supplied no tag.
C20_SmallPlanAllTagged ==
  [][(mmStep = 0 /\ mmStep' = 1 /\ Len(mmPlan.posts) \in 1..(ProductSlots - 1)) =>
       /\ Len(mmPlan'.posts) = Len(mmPlan.posts)
       /\ \A i \in 1..Len(mmPlan.posts) :
            /\ mmPlan'.posts[i].visual_mode \in {"editorial", "product_model"}
            /\ mmPlan'.posts[i].visual_mode =
                 applyMixedMode(untagged(mmPlan)).posts[i].visual_mode
            /\ mmPlan'.posts[i].id = mmPlan.posts[i].id]_vars

\* Three posts tagged product_model, product_model, editorial: a tagging the
\* endpoint did not supply.
C20_Witness ==
  /\ mmStep = 1
  /\ Len(mmPlan.posts) = ProductSlots - 1
  /\ isProduct(mmPlan.posts[1]) /\ isProduct(mmPlan.posts[2]) /\ isEditorial(mmPlan.posts[3])

\* C24: in an allocated plan with unique identifiers at most 4 posts are
\* tagged product_model.
C24_AtMostFourProduct ==
  (mmStep >= 1 /\ UniqueIds(mmPlan.posts)) =>
    Len(SelectSeq(mmPlan.posts, isProduct)) <= ProductSlots

\* More than 4 promotional posts: 4 of them product_model, the rest editorial.
C24_Witness ==
  /\ mmStep >= 1
  /\ UniqueIds(mmPlan.posts)
  /\ Len(SelectSeq(mmPlan.posts, isPromo)) > ProductSlots
  /\ Len(SelectSeq(mmPlan.posts, isProduct)) = ProductSlots
  /\ \E i \in 1..Len(mmPlan.posts) : isPromo(mmPlan.posts[i]) /\ isEditorial(mmPlan.posts[i])

\* The calls a pipeline issues, in order: the three text calls, then images.
isCallOrder(c) ==
  \A n \in 1..Len(c) :
    c[n] = (IF n = 1 THEN "plan" ELSE IF n = 2 THEN "captions"
            ELSE IF n = 3 THEN "visuals" ELSE "image")

\* C21: every job was started once; its calls were issued one after the
\* other in stage order, each text call once; the job has a suspended
\* pipeline exactly while it is running, and that pipeline waits for the one
\* call issued last; and at most one image call has been issued beyond the
\* images already written, exactly one while the pipeline waits for an image.
C21_OnePipelineOneCall ==
  \A j \in DOMAIN jobs :
    /\ Count(hist[j], "running") = 1
    /\ isCallOrder(calls[j])
    /\ task[j].pc # "returned" <=> jobs[j].status = "running"
    /\ task[j].pc # "returned" =>
         calls[j] # <<>> /\ calls[j][Len(calls[j])] = task[j].pc
    /\ Count(calls[j], "image") <= Len(imageIds(j)) + 1
    /\ task[j].pc = "image" => Count(calls[j], "image") = Len(imageIds(j)) + 1

\* Two jobs in flight at different stages, one of them waiting for its second
\* image with the first one written.
C21_Witness ==
  \E j, k \in DOMAIN jobs :
    /\ task[j].pc = "image" /\ Len(imageIds(j)) = 1 /\ Count(calls[j], "image") = 2
    /\ task[k].pc = "captions"

\* C22: no job has written two files of the same path.
C22_WriteOncePerName ==
  \A j \in DOMAIN jobs :
    \A a, b \in 1..Len(files[j]) : files[j][a].path = files[j][b].path => a = b

\* C23: every submitted job is eventually done or error, and stays so.
C23_JobTerminates ==
  \A j \in JobIds :
    [](j \in DOMAIN jobs =>
         <>[](j \in DOMAIN jobs /\ jobs[j].status \in Terminal /\ task[j].pc = "returned"))

\* Every job slot was used, and a job is done after two images.
C23_Witness ==
  /\ Cardinality(DOMAIN jobs) = MaxJobs
  /\ \A j \in DOMAIN jobs : jobs[j].status \in Terminal
  /\ \E j \in DOMAIN jobs : jobs[j].status = "done" /\ Len(imageIds(j)) = 2

====
